---- MODULE Spec2Model ----
(***************************************************************************)
(* A model of vanban (src/main.py): one run of the moderation monitor.     *)
(*                                                                         *)
(*   module level   read the environment, halt if OPENAI_API_KEY is unset  *)
(*   main           fetch_recent_comments -> analyse_comments -> print     *)
(*                                                                         *)
(* Text is modelled as a sequence of fragments (strings); JSON values are  *)
(* tagged records; a Python dict is a function whose DOMAIN is its keys.   *)
(* Scores and the threshold are counted in thousandths.  The clock counts  *)
(* hours and advances by one with every request to the comment source.     *)
(***************************************************************************)
EXTENDS Integers, Sequences, FiniteSets, TLC

VARIABLES
    env,        \* the environment variables read at lines 31-37
    now,        \* the wall clock, in hours
    pc,         \* where the run is
    params,     \* fetch_recent_comments: the query parameters of the next request
    comments,   \* fetch_recent_comments: the accumulated comments
    requests,   \* history: the GET requests issued to the comment source
    responses,  \* history: the JSON documents the comment source answered
    calls,      \* history: the POST requests issued to the classification service
    evaluated,  \* history: the classification calls that completed
    idx,        \* analyse_comments: how many comments of the slice are done
    flagged,    \* analyse_comments: the FlaggedPost list
    stdout,     \* the documents printed to standard output
    error,      \* the exception that ended the run, or NoError
    arg,        \* the argument of a helper applied on its own
    ret         \* its result

vars == <<env, now, pc, params, comments, requests, responses, calls,
          evaluated, idx, flagged, stdout, error, arg, ret>>

-----------------------------------------------------------------------------
(* Bounds of the model *)

MaxItems == 2       \* most items the comment source puts in one response
MaxPage == 3        \* last page number the model lets the run request
MaxComments == 4    \* most comments the comment source hands out in one run
StartTime == 100    \* the clock when the run starts

(* Program constants *)

MODERATION_THRESHOLD == 10    \* 0.01, in thousandths
PAGE_SIZE == 100
BODY_LIMIT == 7000
SLICE_END == 3

VANILLA_BASE_URL == "https://forum.example.com"

None == "None"
NoError == "none"
Idle == <<>>

-----------------------------------------------------------------------------
(* Python and JSON values *)

JNull == [t |-> "null"]
JStr(s) == [t |-> "str", s |-> s]
JNum(n) == [t |-> "num", n |-> n]
JObj(d) == [t |-> "obj", d |-> d]
EmptyDict == [k \in {} |-> k]

\* bool(x) for an environment string: None and "" are falsy
TruthyEnv(s) == s # None /\ s # ""

\* bool(x) for a JSON value
Truthy(v) ==
    CASE v.t = "null" -> FALSE
      [] v.t = "str" -> v.s # <<>>
      [] v.t = "num" -> v.n # 0
      [] v.t = "obj" -> DOMAIN v.d # {}

\* dict.get(key, default)
Get(d, key, default) == IF key \in DOMAIN d THEN d[key] ELSE default

Min(a, b) == IF a < b THEN a ELSE b

Range(s) == {s[j] : j \in DOMAIN s}

RECURSIVE Flatten(_)
Flatten(ss) == IF ss = <<>> THEN <<>> ELSE Head(ss) \o Flatten(Tail(ss))

\* s[:n]
Take(s, n) == SubSeq(s, 1, Min(Len(s), n))

\* sep.join(parts)
RECURSIVE Join(_, _)
Join(parts, sep) ==
    IF parts = <<>> THEN <<>>
    ELSE IF Len(parts) = 1 THEN parts[1]
    ELSE parts[1] \o <<sep>> \o Join(Tail(parts), sep)

\* str.replace(old, new), a fragment at a time
Replace(s, old, new) == [j \in DOMAIN s |-> IF s[j] = old THEN new ELSE s[j]]

\* f"{v:.2f}" for v thousandths; the model's scores avoid the ties (v % 10 = 5)
Fmt2(v) ==
    LET h == (v + 5) \div 10
    IN  <<ToString(h \div 100), ".", ToString((h \div 10) % 10), ToString(h % 10)>>

\* datetime.isoformat() of an instant t counted in hours
IsoFormat(t) == <<"day", ToString(t \div 24), "T", ToString(t % 24), ":00:00+00:00">>

-----------------------------------------------------------------------------
(* The comment source and the classification service *)

CommentAlice ==
    [commentID |-> 1, body |-> <<"h", "i">>,
     insertUser |-> JObj([name |-> JStr(<<"Alice">>)]), insertUserID |-> JNum(42)]

CommentNullUser ==
    [commentID |-> 2, body |-> <<"y", "o">>,
     insertUser |-> JNull, insertUserID |-> JNum(7)]

CommentAnonymous == [commentID |-> 3, body |-> <<>>]

\* the comments the source may hold
Pool == {CommentAlice, CommentNullUser, CommentAnonymous}

RECURSIVE SeqsUpTo(_, _)
SeqsUpTo(S, n) ==
    IF n = 0 THEN {<<>>}
    ELSE LET shorter == SeqsUpTo(S, n - 1)
         IN  shorter \cup {Append(s, x) : s \in {t \in shorter : Len(t) = n - 1}, x \in S}

ItemLists == SeqsUpTo(Pool, MaxItems)

\* r.json() of the comment source: a bare list, or an envelope {items: [...]}
Documents ==
    {[list |-> TRUE, items |-> its] : its \in ItemLists}
        \cup {[list |-> FALSE, items |-> its] : its \in ItemLists}

Categories == << <<"hate">>, <<"self", "_", "harm">>, <<"violence">> >>

Result(fl, scores) ==
    [flagged |-> fl,
     category_scores |-> [j \in DOMAIN Categories |-> [k |-> Categories[j], v |-> scores[j]]]]

\* r.json()["results"][0] of the classification service, as the run meets it
ModResults ==
    {Result(FALSE, <<0, 9, 0>>), Result(TRUE, <<500, 1, 10>>)}

-----------------------------------------------------------------------------
(* fetch_recent_comments *)

InitialParamsEager(e, t) ==
    [limit |-> PAGE_SIZE, page |-> 1,
     dateInserted |-> <<">">> \o IsoFormat(t - e.LOOKBACK_HOURS)]

InitialParams(e, t) ==
    IF e.LOOKBACK_HOURS > 0
    THEN [limit |-> PAGE_SIZE, page |-> 1,
          dateInserted |-> <<">">> \o IsoFormat(t - e.LOOKBACK_HOURS)]
    ELSE [limit |-> PAGE_SIZE, page |-> 1]

\* items = data if isinstance(data, list) else data.get("items", [])
\* (an envelope without the "items" key reads as one whose items list is empty)
ItemsOf(data) == data.items

ExtendFront(cs, items) == items \o cs

\* comments.extend(items)
Extend(cs, items) == cs \o items

MorePagesIgnoringList(data) == ItemsOf(data) # <<>>

\* the loop goes round again: neither `if not items: break` nor
\* `if isinstance(data, list): break` was taken
MorePages(data) == ItemsOf(data) # <<>> /\ ~data.list

\* params["page"] = params.get("page", 1) + 1
NextParams(p) == [p EXCEPT !["page"] = Get(p, "page", 1) + 1]

-----------------------------------------------------------------------------
(* analyse_comments and its helpers *)

triggered(res) ==
    res.flagged \/ \E j \in DOMAIN res.category_scores :
                       res.category_scores[j].v >= MODERATION_THRESHOLD

\* _username: a value, or the exception it raises
_username(c) ==
    LET u == Get(c, "insertUser", JObj(EmptyDict))
    IN  IF u.t # "obj"
        THEN [ok |-> FALSE, exc |-> "AttributeError"]
        ELSE IF Truthy(Get(u.d, "name", JNull))
        THEN [ok |-> TRUE, val |-> u.d["name"].s]
        ELSE [ok |-> TRUE,
              val |-> <<"user_">> \o
                      (IF "insertUserID" \in DOMAIN c
                       THEN <<ToString(c["insertUserID"].n)>>
                       ELSE <<"?">>)]

\* f"{k.replace('_', ' ')} ({v:.2f})"
Rendered(e) == Replace(e.k, "_", " ") \o <<" (">> \o Fmt2(e.v) \o <<")">>

Parts(sel) == [j \in DOMAIN sel |-> Rendered(sel[j])]

ReasonStrict(res) ==
    LET hit(e) == e.v > MODERATION_THRESHOLD
        joined == Join(Parts(SelectSeq(res.category_scores, hit)), ", ")
    IN  IF joined # <<>> THEN joined ELSE <<"OpenAI flagged">>

\* ", ".join(... for k, v in category_scores.items() if v >= T) or "OpenAI flagged"
Reason(res) ==
    LET hit(e) == e.v >= MODERATION_THRESHOLD
        joined == Join(Parts(SelectSeq(res.category_scores, hit)), ", ")
    IN  IF joined # <<>> THEN joined ELSE <<"OpenAI flagged">>

LinkByUser(c) ==
    <<VANILLA_BASE_URL, "/discussion/comment/", ToString(Get(c, "insertUserID", JNum(0)).n)>>

\* f"{VANILLA_BASE_URL}/discussion/comment/{c['commentID']}"
Link(c) == <<VANILLA_BASE_URL, "/discussion/comment/", ToString(c["commentID"])>>

FlaggedPost(l, u, r) == [link |-> l, username |-> u, reason |-> r]

\* comments[0:3]
Slice(cs) == SubSeq(cs, 1, Min(Len(cs), SLICE_END))

list_to_markdown(rows) ==
    IF rows = <<>>
    THEN << <<"_No policy concerns detected in the selected window._">> >>
    ELSE << <<"| User | Comment | Reason |">>, <<"|------|---------|--------|">> >>
         \o [j \in DOMAIN rows |->
                <<"| ">> \o rows[j].username \o <<" | [link](">> \o rows[j].link
                    \o <<") | ">> \o rows[j].reason \o <<" |">>]

-----------------------------------------------------------------------------
(* The run *)

Environments ==
    [OPENAI_API_KEY : {None, "", "sk-key"},
     VANILLA_API_TOKEN : {None, "token"},
     LOOKBACK_HOURS : {0, 24}]

Init ==
    /\ env \in Environments
    /\ now = StartTime
    /\ pc = "startup"
    /\ params = EmptyDict
    /\ comments = <<>>
    /\ requests = <<>>
    /\ responses = <<>>
    /\ calls = <<>>
    /\ evaluated = <<>>
    /\ idx = 0
    /\ flagged = <<>>
    /\ stdout = <<>>
    /\ error = NoError
    /\ arg = Idle
    /\ ret = Idle

RaisePrinting(e) ==
    /\ pc' = "aborted"
    /\ error' = e
    /\ stdout' = Append(stdout, list_to_markdown(flagged))

\* an exception nothing catches: the interpreter ends the run, main's print is not reached
Raise(e) ==
    /\ pc' = "aborted"
    /\ error' = e
    /\ stdout' = stdout

\* lines 39-40: if not OPENAI_API_KEY: raise SystemExit(...)
Startup ==
    /\ pc = "startup"
    /\ IF ~TruthyEnv(env.OPENAI_API_KEY)
       THEN pc' = "halted" /\ error' = "SystemExit"
       ELSE pc' = "main" /\ error' = error
    /\ UNCHANGED <<env, now, params, comments, requests, responses, calls,
                   evaluated, idx, flagged, stdout, arg, ret>>

\* main calls fetch_recent_comments, which builds params and the empty list
FetchBegin ==
    /\ pc = "main"
    /\ params' = InitialParams(env, now)
    /\ comments' = <<>>
    /\ pc' = "fetch"
    /\ UNCHANGED <<env, now, requests, responses, calls, evaluated, idx,
                   flagged, stdout, error, arg, ret>>

\* one turn of the while loop, the request answered with `data`
FetchPage(data) ==
    /\ pc = "fetch"
    /\ params["page"] <= MaxPage
    /\ Len(comments) + Len(ItemsOf(data)) <= MaxComments
    /\ requests' = Append(requests, [auth |-> env.VANILLA_API_TOKEN, params |-> params])
    /\ responses' = Append(responses, data)
    /\ now' = now + 1
    /\ IF ItemsOf(data) = <<>>
       THEN comments' = comments
       ELSE comments' = Extend(comments, ItemsOf(data))
    /\ IF MorePages(data)
       THEN /\ params' = NextParams(params)
            /\ UNCHANGED <<pc, idx, flagged>>
       ELSE \* return comments; main calls analyse_comments
            /\ pc' = "analyse"
            /\ idx' = 0
            /\ flagged' = <<>>
            /\ params' = params
    /\ UNCHANGED <<env, calls, evaluated, stdout, error, arg, ret>>

\* the request fails: r.raise_for_status() raises
FetchFail ==
    /\ pc = "fetch"
    /\ params["page"] <= MaxPage
    /\ requests' = Append(requests, [auth |-> env.VANILLA_API_TOKEN, params |-> params])
    /\ now' = now + 1
    /\ Raise("HTTPError")
    /\ UNCHANGED <<env, params, comments, responses, calls, evaluated, idx,
                   flagged, arg, ret>>

\* one turn of the for loop, the classification call answered with `res`
Moderate(res) ==
    /\ pc = "analyse"
    /\ idx < Len(Slice(comments))
    /\ LET c == Slice(comments)[idx + 1]
           u == _username(c)
       IN  /\ calls' = Append(calls, [auth |-> env.OPENAI_API_KEY,
                                     input |-> Take(Get(c, "body", <<>>), BODY_LIMIT)])
           /\ evaluated' = Append(evaluated, [c |-> c, res |-> res])
           /\ IF u.ok
              THEN /\ flagged' = Append(flagged, FlaggedPost(Link(c), u.val, Reason(res)))
                   /\ idx' = idx + 1
                   /\ UNCHANGED <<pc, error, stdout>>
              ELSE /\ Raise(u.exc)
                   /\ UNCHANGED <<flagged, idx>>
    /\ UNCHANGED <<env, now, params, comments, requests, responses, arg, ret>>

\* the classification call fails: r.raise_for_status() raises
ModerateFail ==
    /\ pc = "analyse"
    /\ idx < Len(Slice(comments))
    /\ LET c == Slice(comments)[idx + 1]
       IN  calls' = Append(calls, [auth |-> env.OPENAI_API_KEY,
                                   input |-> Take(Get(c, "body", <<>>), BODY_LIMIT)])
    /\ Raise("HTTPError")
    /\ UNCHANGED <<env, now, params, comments, requests, responses, evaluated,
                   idx, flagged, arg, ret>>

\* return flagged; print(list_to_markdown(flagged))
Report ==
    /\ pc = "analyse"
    /\ idx = Len(Slice(comments))
    /\ stdout' = Append(stdout, list_to_markdown(flagged))
    /\ pc' = "done"
    /\ UNCHANGED <<env, now, params, comments, requests, responses, calls,
                   evaluated, idx, flagged, error, arg, ret>>

Next ==
    \/ Startup
    \/ FetchBegin
    \/ \E data \in Documents : FetchPage(data)
    \/ FetchFail
    \/ \E res \in ModResults : Moderate(res)
    \/ ModerateFail
    \/ Report

Spec == Init /\ [][Next]_vars

-----------------------------------------------------------------------------
(* _username applied on its own, to every shape of the author fields *)

MaxCommentID == 3

WithField(d, key, v) == [x \in DOMAIN d \cup {key} |-> IF x = key THEN v ELSE d[x]]

AuthorObjects ==
    {JNull,
     JObj(EmptyDict),
     JObj([userID |-> JNum(5)]),
     JObj([name |-> JNull]),
     JObj([name |-> JStr(<<>>)]),
     JObj([name |-> JStr(<<"Alice">>)]),
     JObj([name |-> JStr(<<"Bob">>)])}

AuthorIDs == {JNum(7), JNum(42)}

BareComments == {[commentID |-> n, body |-> <<"x">>] : n \in 1..MaxCommentID}

UserInputs ==
    LET withUser == BareComments
                        \cup {WithField(c, "insertUser", u) : c \in BareComments, u \in AuthorObjects}
    IN  withUser \cup {WithField(c, "insertUserID", n) : c \in withUser, n \in AuthorIDs}

DefaultEnv == [OPENAI_API_KEY |-> "sk-key", VANILLA_API_TOKEN |-> "token", LOOKBACK_HOURS |-> 24]

InitHelper(at, inputs) ==
    /\ env = DefaultEnv
    /\ now = StartTime
    /\ pc = at
    /\ params = EmptyDict
    /\ comments = <<>>
    /\ requests = <<>>
    /\ responses = <<>>
    /\ calls = <<>>
    /\ evaluated = <<>>
    /\ idx = 0
    /\ flagged = <<>>
    /\ stdout = <<>>
    /\ error = NoError
    /\ arg \in inputs
    /\ ret = Idle

InitUser == InitHelper("username_call", UserInputs)

ApplyUsername ==
    /\ pc = "username_call"
    /\ ret' = _username(arg)
    /\ pc' = "username_ret"
    /\ UNCHANGED <<env, now, params, comments, requests, responses, calls,
                   evaluated, idx, flagged, stdout, error, arg>>

SpecUser == InitUser /\ [][ApplyUsername]_vars

-----------------------------------------------------------------------------
(* The reason string built on its own, for every classification result *)

ScoreValues == {0, 1, 9, 10, 11, 500}

AllResults ==
    {Result(fl, <<a, b, c>>) : fl \in BOOLEAN, a \in ScoreValues, b \in ScoreValues, c \in ScoreValues}

InitReason == InitHelper("reason_call", AllResults)

ApplyReason ==
    /\ pc = "reason_call"
    /\ ret' = Reason(arg)
    /\ pc' = "reason_ret"
    /\ UNCHANGED <<env, now, params, comments, requests, responses, calls,
                   evaluated, idx, flagged, stdout, error, arg>>

SpecReason == InitReason /\ [][ApplyReason]_vars

-----------------------------------------------------------------------------
(* Properties of a run *)

HttpFailed == error = "HTTPError"

\* the page loop was left: the last answer was an empty items list or a bare list
FetchReturned ==
    /\ responses # <<>>
    /\ Len(responses) = Len(requests)
    /\ LET last == responses[Len(responses)]
       IN  last.list \/ last.items = <<>>

AnalysisStarted == pc \in {"analyse", "done"} \/ (pc = "aborted" /\ calls # <<>>)

AllEnvelopes == \A j \in DOMAIN responses : ~responses[j].list

ItemsUpTo(n) == Flatten([j \in 1..n |-> responses[j].items])

CommentRef(c) == ToString(c.commentID)

FetchedRefs == {CommentRef(comments[j]) : j \in DOMAIN comments}

FlaggedRefs == {flagged[k].link[Len(flagged[k].link)] : k \in DOMAIN flagged}

\* C1: a run prints at most one document, and only as its last step, the full
\* report of a run that completed; a run that an HTTP failure (of any page
\* request, of any classification request) aborted has printed nothing.
C1_ReportOrNothing ==
    /\ Len(stdout) <= 1
    /\ HttpFailed => pc = "aborted"
    /\ pc \in {"aborted", "halted"} => stdout = <<>>
    /\ stdout # <<>> =>
          /\ pc = "done"
          /\ error = NoError
          /\ Len(flagged) = Min(Len(comments), SLICE_END)
          /\ Len(stdout[1]) = IF flagged = <<>> THEN 1 ELSE 2 + Len(flagged)

\* a classification request failed after earlier comments had been evaluated
C1_Witness ==
    /\ pc = "aborted"
    /\ HttpFailed
    /\ Len(responses) >= 2
    /\ Len(flagged) >= 1
    /\ Len(calls) = Len(flagged) + 1

\* C2: with a required credential missing (the classification-service key or
\* the comment-source token) no request goes to either service.
C2_NoRequestWithoutCredentials ==
    (~TruthyEnv(env.OPENAI_API_KEY) \/ ~TruthyEnv(env.VANILLA_API_TOKEN))
        => requests = <<>> /\ calls = <<>>

\* C3: against paginated envelopes the requests are for pages 1, 2, 3, ... in
\* order, an empty items list is the last answer of the fetch, and the result
\* is the concatenation of the items of the earlier pages, duplicates kept.
C3_EnvelopePagination ==
    AllEnvelopes =>
        /\ \A j \in DOMAIN requests : requests[j].params.page = j
        /\ \A j \in DOMAIN responses :
              responses[j].items = <<>> =>
                  /\ j = Len(responses)
                  /\ Len(requests) = j
                  /\ pc # "fetch"
        /\ AnalysisStarted =>
              /\ responses[Len(responses)].items = <<>>
              /\ comments = ItemsUpTo(Len(responses) - 1)

\* two non-empty envelopes, then the empty one; the same comment came twice
C3_Witness ==
    /\ AllEnvelopes
    /\ Len(responses) = 3
    /\ AnalysisStarted
    /\ Len(comments) >= 3
    /\ \E j, k \in DOMAIN comments : j < k /\ comments[j] = comments[k]

\* C4: a bare list is the last answer of the fetch whatever it holds: no page is
\* requested after it, its items complete the result, and a bare list as the
\* first answer means the fetch made one request.
C4_BareListEndsFetch ==
    \A j \in DOMAIN responses :
        responses[j].list =>
            /\ j = Len(responses)
            /\ Len(requests) = j
            /\ pc # "fetch"
            /\ comments = ItemsUpTo(j)

\* a bare list holding a full measure of items ended the fetch on page 2
C4_Witness ==
    /\ pc = "done"
    /\ Len(responses) = 2
    /\ responses[2].list
    /\ Len(responses[2].items) = MaxItems

\* C5: when no HTTP call failed, analyse_comments made min(n, 3) classification
\* calls, on the first min(n, 3) comments in order, and returned one
\* FlaggedPost per evaluated comment in that order.
C5_OnePostPerEvaluatedComment ==
    (pc \in {"done", "aborted"} /\ ~HttpFailed) =>
        /\ Len(calls) = Min(Len(comments), SLICE_END)
        /\ \A k \in DOMAIN calls : calls[k].input = Take(Get(comments[k], "body", <<>>), BODY_LIMIT)
        /\ Len(flagged) = Len(calls)
        /\ \A k \in DOMAIN flagged : flagged[k].link[3] = CommentRef(comments[k])

C9_CutoffFilter ==
    \A j \in DOMAIN requests :
        LET p == requests[j].params
        IN  /\ DOMAIN p \subseteq {"limit", "page", "dateInserted"}
            /\ ("dateInserted" \in DOMAIN p) <=> (env.LOOKBACK_HOURS > 0)
            /\ p.limit = PAGE_SIZE
            /\ p.page = j
            /\ "dateInserted" \in DOMAIN p =>
                  /\ p.dateInserted = requests[1].params.dateInserted
                  /\ p.dateInserted = <<">">> \o IsoFormat(StartTime - env.LOOKBACK_HOURS)

\* three pages were requested under a positive lookback window
C9_Witness ==
    /\ env.LOOKBACK_HOURS > 0
    /\ Len(requests) = 3
    /\ now > StartTime + 2

\* C10: a run whose HTTP calls all succeeded and whose source ended the
\* pagination finishes with exactly one report; the page loop goes on only
\* while non-empty envelopes come, and until it ends there is no
\* classification call and no report.
C10_FinishesWithOneReport ==
    /\ (pc \in {"done", "aborted"} /\ ~HttpFailed) => (pc = "done" /\ Len(stdout) = 1)
    /\ pc = "fetch" => calls = <<>> /\ stdout = <<>>
    /\ (pc = "fetch" /\ responses # <<>>) => ~FetchReturned
    /\ AnalysisStarted => FetchReturned

-----------------------------------------------------------------------------
(* Properties of _username *)

HasName(c) ==
    /\ "insertUser" \in DOMAIN c
    /\ c.insertUser.t = "obj"
    /\ "name" \in DOMAIN c.insertUser.d
    /\ c.insertUser.d.name.t = "str"
    /\ c.insertUser.d.name.s # <<>>

\* C8: username resolution returns the author object's name when it is
\* present and non-empty, otherwise "user_" and the author identifier, or
\* "user_?" without an identifier; it raises for no shape of the author fields.
C8_UsernameResolution ==
    pc = "username_ret" =>
        /\ ret.ok
        /\ IF HasName(arg) THEN ret.val = arg.insertUser.d.name.s
           ELSE IF "insertUserID" \in DOMAIN arg
           THEN ret.val = <<"user_", ToString(arg.insertUserID.n)>>
           ELSE ret.val = <<"user_", "?">>

-----------------------------------------------------------------------------
(* Properties of the reason string *)

Hits(res) ==
    {j \in DOMAIN res.category_scores : res.category_scores[j].v >= MODERATION_THRESHOLD}

Position(s, frag) == CHOOSE j \in DOMAIN s : s[j] = frag

\* C7: the reason names exactly the categories whose score is at least the
\* threshold, in the service's order, and is "OpenAI flagged" exactly when
\* there is none; the flagged boolean does not change it.
C7_ReasonListsHits ==
    pc = "reason_ret" =>
        /\ (ret = <<"OpenAI flagged">>) <=> (Hits(arg) = {})
        /\ \A j \in DOMAIN Categories : (Categories[j][1] \in Range(ret)) <=> (j \in Hits(arg))
        /\ \A j, k \in Hits(arg) :
              j < k => Position(ret, Categories[j][1]) < Position(ret, Categories[k][1])
        /\ Hits(arg) # {} =>
              Cardinality({j \in DOMAIN ret : ret[j] = ", "}) = Cardinality(Hits(arg)) - 1
        /\ "_" \notin Range(ret)
        /\ ret = Reason([arg EXCEPT !.flagged = ~@])

\* a score equal to the threshold is listed, the flagged boolean being false
C7_Witness ==
    /\ pc = "reason_ret"
    /\ ~arg.flagged
    /\ arg.category_scores[1].v < MODERATION_THRESHOLD
    /\ arg.category_scores[2].v = MODERATION_THRESHOLD
    /\ ret = <<"self", " ", "harm", " (", "0", ".", "0", "1", ")">>

====
